---- MODULE Spec2Model ----
(***************************************************************************)
(* A model of the Triple client endpoint (TripleClient), the user stream   *)
(* adapter (baseUserStream) and the Option defaulting of dubbogo/triple.   *)
(*                                                                         *)
(* TripleClient, baseUserStream and Option are translated from the source. *)
(* H2Controller, the Stream, the package handler and the serializers are   *)
(* used by that source but their code is not part of it: they are modelled *)
(* from the specification and from the way the source calls them.          *)
(***************************************************************************)
EXTENDS Integers, Sequences, FiniteSets, TLC

(* ------------------------------ bounds -------------------------------- *)

\* Concurrent callers (goroutines) using one TripleClient.
NumCallers == 2
\* Logical streams that can be open over the one connection.
MaxStreams == 2
\* Distinct application payload values: the k-th message sent on a stream is k.
MaxVal == 2
\* Frames a receive queue holds.
MaxQueue == 1
\* Frames a receive queue holds where the order of receives is checked.
MaxBacklog == 2

Procs == 1..NumCallers
StreamIds == 1..MaxStreams
Vals == 1..MaxVal

(* ----------------------------- constants ------------------------------ *)

\* constant.PBSerializerName
PBSerializerName == "protobuf"
\* constant.TripleHessianWrapperSerializerName
TripleHessianWrapperSerializerName == "hessian2"
\* constant.TRIPLE
TRIPLE == "tri"
\* constant.DefaultListeningAddress
DefaultListeningAddress == "127.0.0.1:20001"
\* constant.DefaultTimeout
DefaultTimeout == 3
\* constant.DefaultHttp2ControllerReadBufferSize
DefaultHttp2ControllerReadBufferSize == 4096

\* Go's nil: a nil error, a nil interface value, the zero reflect.Value.
Nil == "nil"
\* The zero value of the channel's element type: its Buffer pointer is nil.
NilBuffer == "nilBuffer"

ErrStreamClosed == "user stream closed!"
ErrInvalidSerializer == "Invalid triple client serializerType"
ErrMarshal == "marshal error"
ErrUnmarshal == "unmarshal error"
ErrUnavailable == "connection unavailable"
ErrCanceled == "context canceled"
ErrDial == "dial error"

(* ------------------------------ Option -------------------------------- *)

\* config.NewTripleOption(): every field unset.
NewTripleOption ==
    [Timeout |-> 0, BufferSize |-> 0, Location |-> "", Protocol |-> "",
     SerializerType |-> "", HeaderGroup |-> "", HeaderAppVersion |-> "",
     Logger |-> Nil]

\* config.WithSerializerType
WithSerializerType(o, serializerType) ==
    [o EXCEPT !.SerializerType = serializerType]

\* config.WithClientTimeout
WithClientTimeout(o, timeout) == [o EXCEPT !.Timeout = timeout]

\* config.WithBufferSize
WithBufferSize(o, size) == [o EXCEPT !.BufferSize = size]

\* config.WithProtocol
WithProtocol(o, protocol) == [o EXCEPT !.Protocol = protocol]

\* config.WithLocation
WithLocation(o, location) == [o EXCEPT !.Location = location]

\* config.WithHeaderAppVersion
WithHeaderAppVersion(o, appVersion) == [o EXCEPT !.HeaderAppVersion = appVersion]

\* config.WithHeaderGroup
WithHeaderGroup(o, group) == [o EXCEPT !.HeaderGroup = group]

\* config.WithLogger
WithLogger(o, logger) == [o EXCEPT !.Logger = logger]

\* A Validate that leaves an empty protocol empty.
ValidateNoProtocol(o) ==
    LET o1 == IF o.Timeout = 0 THEN [o EXCEPT !.Timeout = DefaultTimeout] ELSE o
        o2 == IF o1.BufferSize = 0
              THEN [o1 EXCEPT !.BufferSize = DefaultHttp2ControllerReadBufferSize]
              ELSE o1
        o3 == IF o2.Location = ""
              THEN [o2 EXCEPT !.Location = DefaultListeningAddress] ELSE o2
        o4 == IF o3.Logger = Nil THEN [o3 EXCEPT !.Logger = "defaultLogger"] ELSE o3
        o6 == IF o4.SerializerType = ""
              THEN [o4 EXCEPT !.SerializerType = PBSerializerName] ELSE o4
    IN  o6

\* A Validate that sets the timeout to its default whether it is set or not.
ValidateOverwritesTimeout(o) ==
    LET o1 == [o EXCEPT !.Timeout = DefaultTimeout]
        o2 == IF o1.BufferSize = 0
              THEN [o1 EXCEPT !.BufferSize = DefaultHttp2ControllerReadBufferSize]
              ELSE o1
        o3 == IF o2.Location = ""
              THEN [o2 EXCEPT !.Location = DefaultListeningAddress] ELSE o2
        o4 == IF o3.Logger = Nil THEN [o3 EXCEPT !.Logger = "defaultLogger"] ELSE o3
        o5 == IF o4.Protocol = "" THEN [o4 EXCEPT !.Protocol = TRIPLE] ELSE o4
        o6 == IF o5.SerializerType = ""
              THEN [o5 EXCEPT !.SerializerType = PBSerializerName] ELSE o5
    IN  o6

\* Option.Validate: sets each empty field to its default, in the source's order.
Validate(o) ==
    LET o1 == IF o.Timeout = 0 THEN [o EXCEPT !.Timeout = DefaultTimeout] ELSE o
        o2 == IF o1.BufferSize = 0
              THEN [o1 EXCEPT !.BufferSize = DefaultHttp2ControllerReadBufferSize]
              ELSE o1
        o3 == IF o2.Location = ""
              THEN [o2 EXCEPT !.Location = DefaultListeningAddress] ELSE o2
        o4 == IF o3.Logger = Nil THEN [o3 EXCEPT !.Logger = "defaultLogger"] ELSE o3
        o5 == IF o4.Protocol = "" THEN [o4 EXCEPT !.Protocol = TRIPLE] ELSE o4
        o6 == IF o5.SerializerType = ""
              THEN [o5 EXCEPT !.SerializerType = PBSerializerName] ELSE o5
    IN  o6

\* tools.AddDefaultOption: the option with its defaults filled in.
AddDefaultOption(o) == Validate(o)

(* ------------------------ serializer and framing ---------------------- *)

\* An object no serializer can marshal.
BadObj == MaxVal + 1

\* The zero value of a reply: what out.Val holds before anything is decoded into it.
NilVal == 0

\* The serializer types a codec is registered for.
KnownSerializer(ser) ==
    ser \in {PBSerializerName, TripleHessianWrapperSerializerName}

\* The first payload byte each serializer writes.
SerTag(ser) == IF ser = PBSerializerName THEN 8 ELSE 72

\* Dubbo3Serializer.MarshalRequest: [err, data].
MarshalRequest(ser, m) ==
    IF KnownSerializer(ser) /\ m \in Vals
    THEN [err |-> Nil, data |-> <<SerTag(ser), m>>]
    ELSE [err |-> ErrMarshal, data |-> <<>>]

\* Dubbo3Serializer.UnmarshalResponse: [err, val]; val is written on success only.
\* Whether a serializer takes a zero-length payload for a message is its own
\* business: emptyOk is what it does with one, and every use leaves it open.
UnmarshalResponse(ser, data, emptyOk) ==
    IF KnownSerializer(ser) /\ Len(data) = 2 /\ data[1] = SerTag(ser) /\ data[2] \in Vals
    THEN [err |-> Nil, val |-> data[2]]
    ELSE IF KnownSerializer(ser) /\ data = <<>> /\ emptyOk
         THEN [err |-> Nil, val |-> NilVal]
         ELSE [err |-> ErrUnmarshal, val |-> NilVal]

\* The frame header: one flag byte and a four byte big-endian length.
HeaderLen == 5

\* PackageHandler.Pkg2FrameData: the payload behind its header.
Pkg2FrameData(data) ==
    <<0, 0, 0, 0, Len(data)>> \o data

\* The big-endian length in bytes 2..5 of a frame.
FrameLength(frame) ==
    ((frame[2] * 256 + frame[3]) * 256 + frame[4]) * 256 + frame[5]

\* PackageHandler.Frame2PkgData, its first result: the payload behind the
\* header of a frame that Pkg2FrameData made. Its second result is discarded
\* where it is called.
Frame2PkgData(frame) ==
    SubSeq(frame, HeaderLen + 1, HeaderLen + FrameLength(frame))

(* ------------------------------ state --------------------------------- *)

VARIABLES
    client,     \* "none" before NewTripleClient, then "ready" or "failed"
    opt,        \* TripleClient.opt
    hc,         \* TripleClient.h2Controller
    streams,    \* the controller's streams, by stream id
    pc,         \* where each caller is: "idle", "closing", "recv", "unary"
    cur,        \* the stream each caller is blocked on
    canceled,   \* whether the context of each caller's call is canceled
    call,       \* what made each caller's unary call in flight: "invoke", "request"
    last,       \* the outcome of the operation that returned in the last step
    closed,     \* whether a Close() call has returned
    panicked    \* whether a goroutine panicked (the process is gone)

vars == <<client, opt, hc, streams, pc, cur, canceled, call, last, closed, panicked>>

\* Serializer types a client is configured with: unset, the two codecs, an unknown one.
SerializerInputs == {"", PBSerializerName, TripleHessianWrapperSerializerName, "bogus"}

\* The methods the generated stub declares, and the names callers pass.
BoundMethods == {"SayHello"}
MethodNames == {"SayHello", "NoSuchMethod"}

\* The interface key a context carries; NoKey: the context carries none.
NoKey == "noInterfaceKey"
InterfaceKeys == {"com.example.IGreeter", NoKey}

\* The path the generated stub passes for a method.
StubPath(methodName) == "/" \o "com.example.IGreeter" \o "/" \o methodName

\* Request objects: the payload values and one that cannot be marshalled.
Objects == Vals \cup {BadObj}

NoCall == [via |-> "none", method |-> "", ik |-> "", req |-> NilVal, path |-> ""]

\* What one operation returned. rsp is Invoke's result slice, calls the unary
\* calls the operation made, in its inputs, who the caller.
\* For a receive: wasClosed tells that the queue was closed when the receive
\* completed, nth is 0 when a queued frame was read, 1 for a receive that found
\* the queue closed and empty, and 2 for one that follows such a receive.
\* For a Close or a close by the remote side: woke are the callers it found
\* blocked on an open, empty queue, and nth is 2 for a Close made after a Close
\* had returned.
Outcome(op, err, val, s) ==
    [op |-> op, err |-> err, val |-> val, stream |-> s, rsp |-> <<>>,
     calls |-> <<>>, in |-> NoCall, wasClosed |-> FALSE, nth |-> 0,
     woke |-> {}, who |-> 0]

NoOutcome == Outcome("none", Nil, NilVal, 0)

FreeStream ==
    [kind |-> "free", recvq |-> <<>>, recvClosed |-> FALSE,
     wire |-> <<>>, sent |-> <<>>, got |-> <<>>]

Init ==
    /\ client = "none"
    /\ opt \in {WithSerializerType(NewTripleOption, t) : t \in SerializerInputs}
    /\ hc = [connOpen |-> FALSE, destroyed |-> FALSE]
    /\ streams = [s \in StreamIds |-> FreeStream]
    /\ pc = [p \in Procs |-> "idle"]
    /\ cur = [p \in Procs |-> 0]
    /\ canceled = [p \in Procs |-> FALSE]
    /\ call = [p \in Procs |-> "none"]
    /\ last = NoOutcome
    /\ closed = FALSE
    /\ panicked = FALSE

(* --------------------------- H2Controller ----------------------------- *)

\* NewH2Controller: the controller with its physical connection established.
NewH2Controller == [connOpen |-> TRUE, destroyed |-> FALSE]

\* H2Controller.Destroy: the controller is destroyed and holds no connection.
\* What a call on a destroyed controller releases a second time is not told.
Destroy(h) == [h EXCEPT !.connOpen = FALSE, !.destroyed = TRUE]

\* H2Controller.IsAvailable: reflects destruction and connection loss.
H2IsAvailable(h) == h.connOpen /\ ~h.destroyed

\* Closing a stream's receive queue: the channel is closed, or the empty-buffer
\* sentinel is queued, behind the frames that were routed to it before.
CloseRecv(st) == [st EXCEPT !.recvClosed = TRUE]

\* The streams after Destroy: every open one has its receive queue closed.
DestroyStreams(ss) ==
    [s \in StreamIds |->
        IF ss[s].kind = "free" \/ ss[s].recvClosed THEN ss[s] ELSE CloseRecv(ss[s])]

\* The callers a close found blocked on an open, empty receive queue, given
\* the streams after it.
Woke(after) ==
    {p \in Procs : /\ pc[p] \in {"recv", "unary"}
                   /\ streams[cur[p]].recvq = <<>>
                   /\ ~streams[cur[p]].recvClosed
                   /\ after[cur[p]].recvClosed}

\* Stream.PutSend: the frame is enqueued on the outbound path.
PutSend(st, frame) == [st EXCEPT !.wire = Append(@, frame)]

(* ------------------------- baseUserStream ----------------------------- *)

\* Whether the receive <-recvChan can complete: a frame is queued or the channel is closed.
ChanRecvReady(st) == st.recvq # <<>> \/ st.recvClosed

\* A receive that yields the newest queued frame.
ChanRecvNewest(st) ==
    IF st.recvq # <<>> THEN st.recvq[Len(st.recvq)] ELSE NilBuffer

\* What <-recvChan yields: the oldest queued frame, or the zero value once closed.
ChanRecv(st) == IF st.recvq # <<>> THEN Head(st.recvq) ELSE NilBuffer

\* A SendMsg that puts its frame twice.
SendMsgTwice(ser, st, m) ==
    LET r == MarshalRequest(ser, m)
    IN  IF r.err # Nil
        THEN [err |-> r.err, stream |-> st]
        ELSE [err |-> Nil,
              stream |-> PutSend(PutSend(st, Pkg2FrameData(r.data)),
                                 Pkg2FrameData(r.data))]

\* A SendMsg that frames and puts whatever MarshalRequest left, error or not.
SendMsgPutsOnError(ser, st, m) ==
    LET r == MarshalRequest(ser, m)
    IN  [err |-> r.err, stream |-> PutSend(st, Pkg2FrameData(r.data))]

\* baseUserStream.SendMsg: [err, stream]; a message that does not marshal puts nothing.
SendMsg(ser, st, m) ==
    LET r == MarshalRequest(ser, m)
    IN  IF r.err # Nil
        THEN [err |-> r.err, stream |-> st]
        ELSE [err |-> Nil, stream |-> PutSend(st, Pkg2FrameData(r.data))]

\* A RecvMsg without the nil check: the sentinel is decoded as an empty frame.
RecvMsgNoSentinel(ser, readBuf, emptyOk) ==
    LET pkgData == IF readBuf = NilBuffer THEN <<>> ELSE Frame2PkgData(readBuf)
        r == UnmarshalResponse(ser, pkgData, emptyOk)
    IN  IF r.err # Nil
        THEN [err |-> r.err, val |-> r.val]
        ELSE [err |-> Nil, val |-> r.val]

\* A RecvMsg that returns no error on the sentinel.
RecvMsgSwallowsClosed(ser, readBuf, emptyOk) ==
    IF readBuf = NilBuffer
    THEN [err |-> Nil, val |-> NilVal]
    ELSE LET pkgData == Frame2PkgData(readBuf)
             r == UnmarshalResponse(ser, pkgData, emptyOk)
         IN  IF r.err # Nil
             THEN [err |-> r.err, val |-> r.val]
             ELSE [err |-> Nil, val |-> r.val]

\* A RecvMsg that takes an empty payload for the closed sentinel.
RecvMsgEmptyIsClosed(ser, readBuf, emptyOk) ==
    IF readBuf = NilBuffer \/ Frame2PkgData(readBuf) = <<>>
    THEN [err |-> ErrStreamClosed, val |-> NilVal]
    ELSE LET pkgData == Frame2PkgData(readBuf)
             r == UnmarshalResponse(ser, pkgData, emptyOk)
         IN  IF r.err # Nil
             THEN [err |-> r.err, val |-> r.val]
             ELSE [err |-> Nil, val |-> r.val]

\* baseUserStream.RecvMsg on the buffer read from the channel: [err, val].
RecvMsg(ser, readBuf, emptyOk) ==
    IF readBuf = NilBuffer
    THEN [err |-> ErrStreamClosed, val |-> NilVal]
    ELSE LET pkgData == Frame2PkgData(readBuf)
             r == UnmarshalResponse(ser, pkgData, emptyOk)
         IN  IF r.err # Nil
             THEN [err |-> r.err, val |-> r.val]
             ELSE [err |-> Nil, val |-> r.val]

\* A receive that puts the frame back when its payload does not unmarshal.
AfterRecvRequeuesOnError(st, r) ==
    IF st.recvq # <<>> /\ r.err \notin {Nil, ErrStreamClosed}
    THEN st
    ELSE IF st.recvq # <<>> THEN [st EXCEPT !.recvq = Tail(@)] ELSE st

\* The stream after RecvMsg returned r: the buffer read from the channel is
\* gone from it whatever r is, and RecvMsg assigns nothing else.
AfterRecv(st, r) ==
    IF st.recvq # <<>> THEN [st EXCEPT !.recvq = Tail(@)] ELSE st

\* The metadata operations of the user streams and the client's CloseSend.
MetadataOps == {"SetHeader", "SendHeader", "SetTrailer", "Header", "Trailer", "CloseSend"}

\* A CloseSend that closes the stream.
MetadataOpCloseSendCloses(op, st) ==
    [err |-> Nil, stream |-> IF op = "CloseSend" THEN CloseRecv(st) ELSE st]

\* SetHeader, SendHeader, SetTrailer, Header, Trailer, CloseSend: [err, stream].
\* Each returns nil, or nothing, and does nothing else.
MetadataOp(op, st) ==
    CASE op \in {"SetHeader", "SendHeader", "CloseSend"} -> [err |-> Nil, stream |-> st]
      [] op = "SetTrailer" -> [err |-> Nil, stream |-> st]
      [] op \in {"Header", "Trailer"} -> [err |-> Nil, stream |-> st]

(* ---------------------------- TripleClient ---------------------------- *)

\* An IsAvailable that does not ask the controller.
IsAvailableAlways == TRUE

\* TripleClient.IsAvailable
IsAvailable == H2IsAvailable(hc)

\* TripleClient.Close: the controller after h2Controller.Destroy().
Close(h) == Destroy(h)

\* A path built without its leading slash.
InvokePathNoSlash(interfaceKey, methodName) == interfaceKey \o "/" \o methodName

\* The path Invoke builds for the Hessian serializer.
InvokePath(interfaceKey, methodName) == "/" \o interfaceKey \o "/" \o methodName

\* The result slice Invoke builds from what Request left in out.Val and returned.
InvokeResult(val, err) ==
    IF err # Nil THEN <<val, err>> ELSE <<val, Nil>>

\* A default branch that reports no error.
InvokeInvalidNoError == <<NilVal, Nil>>

\* The result slice of Invoke's default branch.
InvokeInvalid == <<NilVal, ErrInvalidSerializer>>

\* The frames the remote side may answer with: one that carries a message and
\* one with an empty payload, which a serializer may or may not decode.
RespFrames(ser) ==
    {Pkg2FrameData(<<SerTag(ser), 1>>), Pkg2FrameData(<<>>)}

\* The frames of the remote side where the order of receives is checked: those
\* and one whose payload is no message of any serializer.
BacklogFrames(ser) == RespFrames(ser) \cup {Pkg2FrameData(<<99>>)}

\* NewTripleClient: the option is defaulted and the controller connected; a dial
\* failure is returned and leaves no client.
NewTripleClient ==
    /\ ~panicked
    /\ client = "none"
    /\ opt' = AddDefaultOption(opt)
    /\ \E dialOk \in BOOLEAN :
         IF dialOk
         THEN client' = "ready" /\ hc' = NewH2Controller
         ELSE client' = "failed" /\ hc' = hc
    /\ last' = Outcome("new", IF client' = "ready" THEN Nil ELSE ErrDial, NilVal, 0)
    /\ UNCHANGED <<streams, pc, cur, canceled, call, closed, panicked>>

\* Close, first half: the caller has entered Close and logged.
CloseBegin(p) ==
    /\ ~panicked
    /\ client = "ready" /\ pc[p] = "idle"
    /\ pc' = [pc EXCEPT ![p] = "closing"]
    /\ last' = NoOutcome
    /\ UNCHANGED <<client, opt, hc, streams, cur, canceled, call, closed, panicked>>

\* Close, second half: h2Controller.Destroy() and the return.
CloseDestroy(p) ==
    /\ ~panicked
    /\ pc[p] = "closing"
    /\ hc' = Close(hc)
    /\ streams' = DestroyStreams(streams)
    /\ pc' = [pc EXCEPT ![p] = "idle"]
    /\ closed' = TRUE
    /\ last' = [Outcome("close", Nil, NilVal, 0) EXCEPT
                    !.nth = IF closed THEN 2 ELSE 1, !.who = p,
                    !.woke = Woke(streams')]
    /\ UNCHANGED <<client, opt, cur, canceled, call, panicked>>

\* StreamRequest: h2Controller.StreamInvoke opens a stream and returns it.
StreamRequest(p) ==
    /\ ~panicked
    /\ client = "ready" /\ pc[p] = "idle"
    /\ IF ~H2IsAvailable(hc)
       THEN /\ last' = Outcome("stream", ErrUnavailable, NilVal, 0)
            /\ UNCHANGED streams
       ELSE \E s \in StreamIds :
              /\ streams[s].kind = "free"
              /\ \A t \in StreamIds : streams[t].kind = "free" => s <= t
              /\ streams' = [streams EXCEPT ![s] = [FreeStream EXCEPT !.kind = "stream"]]
              /\ last' = Outcome("stream", Nil, NilVal, s)
    /\ UNCHANGED <<client, opt, hc, pc, cur, canceled, call, closed, panicked>>

\* SendMsg on a stream returned by StreamRequest. The messages of a stream are
\* numbered: the k-th one that is sent is k.
SendMsgCall(p, s, m) ==
    /\ ~panicked
    /\ client = "ready" /\ pc[p] = "idle"
    /\ streams[s].kind = "stream"
    /\ m \in {Len(streams[s].sent) + 1, BadObj}
    /\ LET r == SendMsg(opt.SerializerType, streams[s], m)
       IN  /\ streams' = [streams EXCEPT ![s] =
                 IF r.err = Nil THEN [r.stream EXCEPT !.sent = Append(@, m)] ELSE r.stream]
           /\ last' = Outcome("send", r.err, m, s)
    /\ UNCHANGED <<client, opt, hc, pc, cur, canceled, call, closed, panicked>>

\* RecvMsg, first half: the caller reaches the receive on the stream's channel.
RecvMsgCall(p, s) ==
    /\ ~panicked
    /\ client = "ready" /\ pc[p] = "idle"
    /\ streams[s].kind = "stream"
    /\ pc' = [pc EXCEPT ![p] = "recv"]
    /\ cur' = [cur EXCEPT ![p] = s]
    /\ last' = NoOutcome
    /\ UNCHANGED <<client, opt, hc, streams, canceled, call, closed, panicked>>

\* RecvMsg, second half: the receive completes and the buffer is decoded.
RecvMsgReturn(p) ==
    /\ ~panicked
    /\ pc[p] = "recv"
    /\ LET s == cur[p]
           st == streams[s]
       IN  /\ ChanRecvReady(st)
           /\ \E emptyOk \in BOOLEAN :
                LET r == RecvMsg(opt.SerializerType, ChanRecv(st), emptyOk)
                IN  /\ streams' = [streams EXCEPT ![s] = AfterRecv(st, r)]
                    /\ last' = [Outcome("recv", r.err, r.val, s) EXCEPT
                                   !.wasClosed = st.recvClosed,
                                   !.nth = IF st.recvq # <<>> THEN 0
                                           ELSE IF last.op = "recv" /\ last.stream = s
                                                   /\ last.nth > 0
                                                THEN 2 ELSE 1,
                                   !.who = p]
    /\ pc' = [pc EXCEPT ![p] = "idle"]
    /\ cur' = [cur EXCEPT ![p] = 0]
    /\ canceled' = [canceled EXCEPT ![p] = FALSE]
    /\ UNCHANGED <<client, opt, hc, call, closed, panicked>>

\* The context of a blocked call is canceled or passes its deadline.
Cancel(p) ==
    /\ ~panicked
    /\ pc[p] \in {"recv", "unary"} /\ ~canceled[p]
    /\ canceled' = [canceled EXCEPT ![p] = TRUE]
    /\ last' = NoOutcome
    /\ UNCHANGED <<client, opt, hc, streams, pc, cur, call, closed, panicked>>

\* The native results of a generated stub method: the reply and the error.
StubResult(val, err) == <<val, err>>

\* What the caller of a unary call gets back: Invoke wraps what Request
\* returned, Request returns the error alone.
UnaryRsp(via, err, val) ==
    IF via = "request" THEN <<>>
    ELSE IF opt.SerializerType = PBSerializerName
         THEN StubResult(val, err) ELSE InvokeResult(val, err)

\* The outcome of a unary call that ended before it was sent, made for call c.
UnaryOutcome(c, err, val) ==
    [Outcome(c.via, err, val, 0) EXCEPT
        !.rsp = UnaryRsp(c.via, err, val),
        !.calls = <<[path |-> c.path, arg |-> c.req]>>,
        !.in = c]

\* What a caller has done once its unary call waits for the response: the call
\* made for c on stream s is under way and nothing is returned yet.
UnaryStarted(c, s) ==
    [Outcome("started", Nil, NilVal, s) EXCEPT
        !.calls = <<[path |-> c.path, arg |-> c.req]>>, !.in = c]

\* H2Controller.UnaryInvoke on the buffer it read for the response: [err, val].
\* A response that carries a message gives the decoded reply and no error, a
\* closed stream or any other response the zero value and an error.
UnaryResponse(ser, readBuf, emptyOk) ==
    IF readBuf = NilBuffer
    THEN [err |-> ErrStreamClosed, val |-> NilVal]
    ELSE LET r == UnmarshalResponse(ser, Frame2PkgData(readBuf), emptyOk)
         IN  IF r.err # Nil
             THEN [err |-> r.err, val |-> NilVal]
             ELSE [err |-> Nil, val |-> r.val]

\* H2Controller.UnaryInvoke up to its wait for the response. Opening a stream
\* fails on a controller that is destroyed or has lost its connection, and a
\* request that gives no request bytes is reported at once; otherwise a stream
\* is opened and one data frame built from the request bytes is written on it.
UnaryStart(p, c) ==
    IF ~H2IsAvailable(hc)
    THEN /\ last' = UnaryOutcome(c, ErrUnavailable, NilVal)
         /\ UNCHANGED <<streams, pc, cur, call>>
    ELSE \E s \in StreamIds :
           /\ streams[s].kind = "free"
           /\ \A t \in StreamIds : streams[t].kind = "free" => s <= t
           /\ LET r == MarshalRequest(opt.SerializerType, c.req)
              IN  IF r.err # Nil
                  THEN /\ last' = UnaryOutcome(c, r.err, NilVal)
                       /\ UNCHANGED <<streams, pc, cur, call>>
                  ELSE /\ streams' = [streams EXCEPT ![s] =
                              [PutSend([FreeStream EXCEPT !.kind = "unary"],
                                       Pkg2FrameData(r.data))
                                  EXCEPT !.sent = <<c.req>>]]
                       /\ pc' = [pc EXCEPT ![p] = "unary"]
                       /\ cur' = [cur EXCEPT ![p] = s]
                       /\ call' = [call EXCEPT ![p] = c.via]
                       /\ last' = UnaryStarted(c, s)

\* H2Controller.UnaryInvoke from its wait on: the call blocks for one frame in
\* response, which is read and decoded, or finds the stream closed, or its
\* context is done; then the stream is released.
UnaryReturn(p) ==
    /\ ~panicked
    /\ pc[p] = "unary"
    /\ LET s == cur[p]
           st == streams[s]
       IN  /\ \E way \in {"frame", "ctx"}, emptyOk \in BOOLEAN :
                LET r == IF way = "frame"
                         THEN UnaryResponse(opt.SerializerType, ChanRecv(st), emptyOk)
                         ELSE [err |-> ErrCanceled, val |-> NilVal]
                IN  /\ IF way = "frame" THEN ChanRecvReady(st) ELSE canceled[p]
                    /\ last' = [Outcome(call[p], r.err, r.val, s) EXCEPT
                                   !.rsp = UnaryRsp(call[p], r.err, r.val),
                                   !.wasClosed = (way = "frame" /\ st.recvq = <<>>),
                                   !.who = p]
           /\ streams' = [streams EXCEPT ![s] = FreeStream]
    /\ pc' = [pc EXCEPT ![p] = "idle"]
    /\ cur' = [cur EXCEPT ![p] = 0]
    /\ canceled' = [canceled EXCEPT ![p] = FALSE]
    /\ call' = [call EXCEPT ![p] = "none"]
    /\ UNCHANGED <<client, opt, hc, closed, panicked>>

\* Request: a unary call made directly, bypassing Invoke.
Request(p, path, arg) ==
    /\ ~panicked
    /\ client = "ready" /\ pc[p] = "idle"
    /\ UnaryStart(p, [via |-> "request", method |-> "", ik |-> "", req |-> arg,
                      path |-> path])
    /\ UNCHANGED <<client, opt, hc, canceled, closed, panicked>>

\* The goroutine panics: nothing recovers it and the process ends.
Panic ==
    /\ panicked' = TRUE
    /\ last' = Outcome("panic", Nil, NilVal, 0)
    /\ UNCHANGED <<client, opt, hc, streams, pc, cur, canceled, call, closed>>

\* Whether StubInvoker.MethodByName finds the method: Call on the zero Value panics.
MethodByName(methodName) == methodName \in BoundMethods

\* Whether ctx.Value(InterfaceKey).(string) yields a string: on a context
\* without the key the type assertion panics.
HasInterfaceKey(ik) == ik # NoKey

\* The request objects callers pass: the first payload value and an object
\* that cannot be marshalled.
Requests == {1, BadObj}

\* Invoke, by the configured serializer type: the stub method is called, or the
\* Hessian request is made and its result wrapped, or the type is rejected.
Invoke(p, methodName, ik, req) ==
    /\ ~panicked
    /\ client = "ready" /\ pc[p] = "idle"
    /\ LET c == [via |-> "invoke", method |-> methodName, ik |-> ik, req |-> req,
                 path |-> ""]
       IN  CASE opt.SerializerType = PBSerializerName ->
                  IF ~MethodByName(methodName)
                  THEN Panic
                  ELSE /\ UnaryStart(p, [c EXCEPT !.path = StubPath(methodName)])
                       /\ UNCHANGED <<client, opt, hc, canceled, closed, panicked>>
             [] opt.SerializerType = TripleHessianWrapperSerializerName ->
                  IF ~HasInterfaceKey(ik)
                  THEN Panic
                  ELSE /\ UnaryStart(p, [c EXCEPT !.path = InvokePath(ik, methodName)])
                       /\ UNCHANGED <<client, opt, hc, canceled, closed, panicked>>
             [] OTHER ->
                  /\ last' = [Outcome("invoke", ErrInvalidSerializer, NilVal, 0) EXCEPT
                                 !.rsp = InvokeInvalid, !.in = c]
                  /\ UNCHANGED <<client, opt, hc, streams, pc, cur, canceled, call,
                                 closed, panicked>>

(* ---------------------------- the remote side ------------------------- *)

\* The remote side's RecvMsg on its end of the stream: the oldest frame on the
\* outbound path is received and decoded.
PeerRecvMsg(s) ==
    /\ ~panicked
    /\ streams[s].kind # "free" /\ streams[s].wire # <<>>
    /\ \E emptyOk \in BOOLEAN :
         LET r == RecvMsg(opt.SerializerType, Head(streams[s].wire), emptyOk)
         IN  streams' = [streams EXCEPT ![s] =
                [@ EXCEPT !.wire = Tail(@),
                          !.got = IF r.err = Nil THEN Append(@, r.val) ELSE @]]
    /\ last' = NoOutcome
    /\ UNCHANGED <<client, opt, hc, pc, cur, canceled, call, closed, panicked>>

\* A worker that routes every frame to the open stream with the lowest id.
RouteToFirst(ss, s, f) ==
    LET t == CHOOSE x \in StreamIds :
                /\ ss[x].kind # "free"
                /\ \A y \in StreamIds : ss[y].kind # "free" => x <= y
    IN  [ss EXCEPT ![t] = [@ EXCEPT !.recvq = Append(@, f)]]

\* The inbound worker routes frame f, addressed to stream s, to that stream's
\* receive queue, behind what is queued there.
Route(ss, s, f) == [ss EXCEPT ![s] = [@ EXCEPT !.recvq = Append(@, f)]]

\* A frame of the remote side for stream s arrives and is routed, while the
\* stream's receive queue holds fewer than cap frames.
PeerSendUpTo(s, f, cap) ==
    /\ ~panicked
    /\ streams[s].kind # "free" /\ ~streams[s].recvClosed
    /\ Len(streams[s].recvq) < cap
    /\ streams' = Route(streams, s, f)
    /\ last' = NoOutcome
    /\ UNCHANGED <<client, opt, hc, pc, cur, canceled, call, closed, panicked>>

\* A frame of the remote side is routed to the stream's receive queue.
PeerSend(s, f) == PeerSendUpTo(s, f, MaxQueue)

\* The remote side closed the stream: its receive queue is closed.
PeerClose(s) ==
    /\ ~panicked
    /\ streams[s].kind # "free" /\ ~streams[s].recvClosed
    /\ streams' = [streams EXCEPT ![s] = CloseRecv(@)]
    /\ last' = [Outcome("peerClose", Nil, NilVal, s) EXCEPT !.woke = Woke(streams')]
    /\ UNCHANGED <<client, opt, hc, pc, cur, canceled, call, closed, panicked>>

(* --------------------------- specification ---------------------------- *)

Next ==
    \/ NewTripleClient
    \/ \E p \in Procs : CloseBegin(p)
    \/ \E p \in Procs : CloseDestroy(p)
    \/ \E p \in Procs : StreamRequest(p)
    \/ \E p \in Procs, s \in StreamIds, m \in Objects : SendMsgCall(p, s, m)
    \/ \E p \in Procs, s \in StreamIds : RecvMsgCall(p, s)
    \/ \E p \in Procs : RecvMsgReturn(p)
    \/ \E p \in Procs : Cancel(p)
    \/ \E p \in Procs, arg \in Requests : Request(p, StubPath("SayHello"), arg)
    \/ \E p \in Procs : UnaryReturn(p)
    \/ \E p \in Procs, mn \in MethodNames, ik \in InterfaceKeys, req \in Requests :
         Invoke(p, mn, ik, req)
    \/ \E s \in StreamIds : PeerRecvMsg(s)
    \/ \E s \in StreamIds, f \in RespFrames(opt.SerializerType) : PeerSend(s, f)
    \/ \E s \in StreamIds : PeerClose(s)

Spec == Init /\ [][Next]_vars

\* The steps that bear on a blocked receive: those of Next but the SendMsg calls
\* on a stream, which leave the receive queues and the blocked callers as they are.
ReceiveNext ==
    \/ NewTripleClient
    \/ \E p \in Procs : CloseBegin(p)
    \/ \E p \in Procs : CloseDestroy(p)
    \/ \E p \in Procs : StreamRequest(p)
    \/ \E p \in Procs, s \in StreamIds : RecvMsgCall(p, s)
    \/ \E p \in Procs : RecvMsgReturn(p)
    \/ \E p \in Procs : Cancel(p)
    \/ \E p \in Procs, arg \in Requests : Request(p, StubPath("SayHello"), arg)
    \/ \E p \in Procs : UnaryReturn(p)
    \/ \E p \in Procs, mn \in MethodNames, ik \in InterfaceKeys, req \in Requests :
         Invoke(p, mn, ik, req)
    \/ \E s \in StreamIds : PeerRecvMsg(s)
    \/ \E s \in StreamIds, f \in RespFrames(opt.SerializerType) : PeerSend(s, f)
    \/ \E s \in StreamIds : PeerClose(s)

\* The scheduler runs a goroutine whose channel receive can complete.
FairSpec ==
    /\ Init /\ [][ReceiveNext]_vars
    /\ \A p \in Procs : WF_vars(RecvMsgReturn(p)) /\ WF_vars(UnaryReturn(p))

(* --------------------- user stream specification ---------------------- *)

\* A metadata operation, or CloseSend, called on a stream returned by
\* StreamRequest; in is the stream as it was before the call.
MetadataCall(p, s, op) ==
    /\ ~panicked
    /\ client = "ready" /\ pc[p] = "idle"
    /\ streams[s].kind = "stream"
    /\ LET r == MetadataOp(op, streams[s])
       IN  /\ streams' = [streams EXCEPT ![s] = r.stream]
           /\ last' = [Outcome(op, r.err, NilVal, s) EXCEPT !.in = streams[s]]
    /\ UNCHANGED <<client, opt, hc, pc, cur, canceled, call, closed, panicked>>

\* The operations on a client's streams, with the remote side.
UserStreamNext ==
    \/ NewTripleClient
    \/ \E p \in Procs : StreamRequest(p)
    \/ \E p \in Procs, s \in StreamIds, m \in Objects : SendMsgCall(p, s, m)
    \/ \E p \in Procs, s \in StreamIds : RecvMsgCall(p, s)
    \/ \E p \in Procs : RecvMsgReturn(p)
    \/ \E p \in Procs, s \in StreamIds, op \in MetadataOps : MetadataCall(p, s, op)
    \/ \E s \in StreamIds : PeerRecvMsg(s)
    \/ \E s \in StreamIds, f \in RespFrames(opt.SerializerType) : PeerSend(s, f)
    \/ \E s \in StreamIds : PeerClose(s)

UserStreamSpec == Init /\ [][UserStreamNext]_vars

(* ---------------------- receive order specification ------------------- *)

\* Streams are opened, callers send and receive on them, and the remote side's
\* frames are routed to their receive queues, which hold up to MaxBacklog frames.
DemuxNext ==
    \/ NewTripleClient
    \/ \E p \in Procs : StreamRequest(p)
    \/ \E p \in Procs, s \in StreamIds : RecvMsgCall(p, s)
    \/ \E p \in Procs, s \in StreamIds : SendMsgCall(p, s, 1)
    \/ \E s \in StreamIds : PeerRecvMsg(s)
    \/ \E p \in Procs : RecvMsgReturn(p)
    \/ \E s \in StreamIds, f \in BacklogFrames(opt.SerializerType) :
         PeerSendUpTo(s, f, MaxBacklog)

DemuxSpec == Init /\ [][DemuxNext]_vars

(* ------------------------ Option specification ------------------------ *)

\* The options one OptionFunction makes of option o, over the arguments callers pass.
OptionFunctions(o) ==
    {WithClientTimeout(o, t) : t \in {1, 30}}
        \cup {WithBufferSize(o, n) : n \in {1024}}
        \cup {WithSerializerType(o, t) : t \in SerializerInputs \ {""}}
        \cup {WithProtocol(o, x) : x \in {TRIPLE, "grpc"}}
        \cup {WithLocation(o, x) : x \in {"10.0.0.1:20000"}}
        \cup {WithHeaderAppVersion(o, x) : x \in {"1.0.0"}}
        \cup {WithHeaderGroup(o, x) : x \in {"dubbogo"}}
        \cup {WithLogger(o, x) : x \in {"userLogger"}}

\* NewTripleOption(fs...) applies one more of its option functions.
ApplyOptionFunction ==
    /\ last.op \in {"none", "with"}
    /\ \E o \in OptionFunctions(opt) : opt' = o
    /\ last' = Outcome("with", Nil, NilVal, 0)
    /\ UNCHANGED <<client, hc, streams, pc, cur, canceled, call, closed, panicked>>

\* opt.Validate(): in is the option before the call, nth is 2 for a call made
\* on an option that was validated before.
ValidateCall ==
    /\ last.op \in {"none", "with", "validate"}
    /\ opt' = Validate(opt)
    /\ last' = [Outcome("validate", Nil, NilVal, 0) EXCEPT
                    !.in = opt, !.nth = IF last.op = "validate" THEN 2 ELSE 1]
    /\ UNCHANGED <<client, hc, streams, pc, cur, canceled, call, closed, panicked>>

OptionInit ==
    /\ client = "none"
    /\ opt = NewTripleOption
    /\ hc = [connOpen |-> FALSE, destroyed |-> FALSE]
    /\ streams = [s \in StreamIds |-> FreeStream]
    /\ pc = [p \in Procs |-> "idle"]
    /\ cur = [p \in Procs |-> 0]
    /\ canceled = [p \in Procs |-> FALSE]
    /\ call = [p \in Procs |-> "none"]
    /\ last = NoOutcome
    /\ closed = FALSE
    /\ panicked = FALSE

OptionNext ==
    \/ ApplyOptionFunction
    \/ ValidateCall

OptionSpec == OptionInit /\ [][OptionNext]_vars

(* ------------------------------ claims -------------------------------- *)

Hessian == opt.SerializerType = TripleHessianWrapperSerializerName
Protobuf == opt.SerializerType = PBSerializerName

\* The values the remote side would decode from the frames on the outbound
\* path, none of which SendMsg made of an empty payload.
DecodedWire(ser, w) == [i \in 1..Len(w) |-> RecvMsg(ser, w[i], FALSE).val]

\* C2: once a Close has returned, IsAvailable is false, in that state and in
\* every state that follows, whatever is called next.
C2_UnavailableAfterClose == closed => ~IsAvailable

\* A call made after a Close has returned, with the client unavailable.
C2_Witness ==
    closed /\ last.op \in {"invoke", "request", "stream"} /\ ~IsAvailable

C4_SendOrder ==
    \A s \in StreamIds :
        streams[s].kind = "stream" =>
            streams[s].got \o DecodedWire(opt.SerializerType, streams[s].wire)
                = streams[s].sent

\* The remote side has received two messages of one stream.
C4_Witness ==
    \E s \in StreamIds :
        /\ streams[s].kind = "stream"
        /\ Len(streams[s].got) >= 2
        /\ streams[s].got = SubSeq(streams[s].sent, 1, Len(streams[s].got))

\* C5: a RecvMsg or unary call blocked on an open, empty receive queue whose
\* context is canceled can return at once.
C5_CancelUnblocks ==
    \A p \in Procs :
        /\ pc[p] \in {"recv", "unary"} /\ canceled[p] /\ ~panicked
        /\ streams[cur[p]].recvq = <<>> /\ ~streams[cur[p]].recvClosed
        => ENABLED (RecvMsgReturn(p) \/ UnaryReturn(p))

\* C6: a destroyed controller has closed the receive queue of every stream, a
\* RecvMsg that finds its queue closed and empty returns the stream closed
\* error, and a RecvMsg blocked on an empty receive queue that is closed, by
\* the remote side or by Close, does return with that error, in a process that
\* is still running.
C6_CloseUnblocks ==
    /\ [](hc.destroyed => \A s \in StreamIds :
                             streams[s].kind # "free" => streams[s].recvClosed)
    /\ [](last.op = "recv" /\ last.nth > 0 => last.err = ErrStreamClosed)
    /\ \A p \in Procs :
         (pc[p] = "recv" /\ streams[cur[p]].recvClosed /\ streams[cur[p]].recvq = <<>>)
            ~> (panicked \/ (last.op = "recv" /\ last.who = p
                                /\ last.err = ErrStreamClosed))

\* A Close has closed the empty queue a RecvMsg was blocked on.
C6_Witness ==
    /\ last.op = "close" /\ hc.destroyed
    /\ \E p \in last.woke :
          /\ pc[p] = "recv"
          /\ streams[cur[p]].recvClosed /\ streams[cur[p]].recvq = <<>>

\* C7: with the Hessian serializer an Invoke makes one unary call, to the path
\* "/" + interfaceKey + "/" + methodName and with the request it was given, and
\* returns two results, the value and then the error, the error nil exactly when
\* the call returned none.
C7_HessianInvoke ==
    /\ Hessian /\ last.op = "started" /\ last.in.via = "invoke" =>
         /\ last.calls = <<[path |-> "/" \o last.in.ik \o "/" \o last.in.method,
                            arg |-> last.in.req]>>
         /\ streams[last.stream].wire
                = <<Pkg2FrameData(MarshalRequest(opt.SerializerType, last.in.req).data)>>
    /\ Hessian /\ last.op = "invoke" =>
         /\ Len(last.rsp) = 2
         /\ last.rsp[1] = last.val
         /\ last.rsp[2] = last.err
         /\ Len(last.calls) <= 1

\* A Hessian Invoke returned a decoded value and a nil error.
C7_Witness ==
    Hessian /\ last.op = "invoke" /\ last.err = Nil /\ last.val = 1
        /\ last.rsp = <<1, Nil>>

\* C8 as claimed: a client with an unknown serializer type is not constructed,
\* and nothing is opened for it.
C8_Original ==
    client # "none" /\ ~KnownSerializer(opt.SerializerType) =>
        /\ client = "failed"
        /\ ~hc.connOpen /\ ~hc.destroyed
        /\ \A s \in StreamIds : streams[s].kind = "free"

\* C8, amended: every Invoke on a client with an unknown serializer type
\* returns the zero value and the invalid serializer error, and opens no stream,
\* sends no frame and leaves the controller as it was.
C8_InvokeRejected ==
    [][(~KnownSerializer(opt.SerializerType)
          /\ \E p \in Procs, mn \in MethodNames, ik \in InterfaceKeys, req \in Requests :
                Invoke(p, mn, ik, req))
        => /\ last'.op = "invoke"
           /\ last'.rsp = <<NilVal, ErrInvalidSerializer>>
           /\ last'.calls = <<>>
           /\ streams' = streams /\ hc' = hc /\ pc' = pc /\ ~panicked']_vars

\* An Invoke was rejected on a constructed client with an unknown serializer type.
C8_Witness ==
    /\ client = "ready" /\ hc.connOpen /\ ~KnownSerializer(opt.SerializerType)
    /\ last.op = "invoke" /\ last.err = ErrInvalidSerializer

\* C10: with the protobuf serializer no Invoke panics: a method name the stub
\* does not declare yields an error.
C10_UnboundMethodNoPanic == Protobuf => ~panicked

\* C11: every Request, StreamRequest and Invoke made after a Close has returned
\* returns an error at once: it opens no stream, sends no frame, leaves its
\* caller unblocked and does not panic.
C11_CallsAfterClose ==
    [][(closed /\ \E p \in Procs :
                    \/ StreamRequest(p)
                    \/ \E arg \in Requests : Request(p, StubPath("SayHello"), arg)
                    \/ \E mn \in MethodNames, ik \in InterfaceKeys, req \in Requests :
                          Invoke(p, mn, ik, req))
        => /\ ~panicked'
           /\ last'.op \in {"stream", "request", "invoke"}
           /\ last'.err # Nil
           /\ streams' = streams /\ pc' = pc]_vars

\* C12: validating the option whose fields are all unset gives the default
\* timeout, buffer size, address, protocol "tri" and protobuf serializer type,
\* none of them empty, a logger, and an empty header group and app version.
C12_DefaultsFilled ==
    last.op = "validate" /\ last.in = NewTripleOption =>
        /\ opt.Timeout = DefaultTimeout /\ opt.Timeout # 0
        /\ opt.BufferSize = DefaultHttp2ControllerReadBufferSize /\ opt.BufferSize # 0
        /\ opt.Location = DefaultListeningAddress /\ opt.Location # ""
        /\ opt.Protocol = "tri"
        /\ opt.SerializerType = PBSerializerName
        /\ opt.Logger # Nil
        /\ opt.HeaderGroup = "" /\ opt.HeaderAppVersion = ""

\* The all-unset option has been validated.
C12_Witness ==
    last.op = "validate" /\ last.in = NewTripleOption /\ opt.Protocol = "tri"

\* C13: a SendMsg whose object does not marshal returns the marshal error and
\* changes nothing but what the caller got back: no frame is put on the send
\* path, and the stream, its queues and every caller are as they were.
C13_FailedSendNoEffect ==
    [][(\E p \in Procs, s \in StreamIds : SendMsgCall(p, s, BadObj))
        => /\ last'.op = "send" /\ last'.err = ErrMarshal
           /\ UNCHANGED <<client, opt, hc, streams, pc, cur, canceled, call,
                           closed, panicked>>]_vars

\* A SendMsg failed on an open stream that had sent a message and holds a
\* frame to receive.
C13_Witness ==
    /\ last.op = "send" /\ last.err = ErrMarshal
    /\ streams[last.stream].sent # <<>>
    /\ streams[last.stream].recvq # <<>>
    /\ ~streams[last.stream].recvClosed

C15_MetadataNoOps ==
    last.op \in MetadataOps =>
        /\ last.err = Nil
        /\ streams[last.stream] = last.in
        /\ streams[last.stream].kind = "stream"
        /\ ~panicked

\* CloseSend returned on an open stream with a frame on the send path and one
\* in the receive queue.
C15_Witness ==
    /\ last.op = "CloseSend" /\ last.err = Nil
    /\ streams[last.stream].wire # <<>>
    /\ streams[last.stream].recvq # <<>>
    /\ ~streams[last.stream].recvClosed

\* C17: with several streams open, a frame that arrives for a stream is put
\* behind the frames queued for that stream and touches no other stream, and a
\* RecvMsg on a stream returns what the oldest frame queued for that stream
\* decodes to, takes that frame alone and touches no other stream: every
\* stream is received in the order its frames were produced.
C17_PerStreamOrder ==
    [][/\ \A s \in StreamIds, f \in BacklogFrames(opt.SerializerType) :
            PeerSendUpTo(s, f, MaxBacklog)
            => /\ streams'[s].recvq = Append(streams[s].recvq, f)
               /\ \A t \in StreamIds \ {s} : streams'[t] = streams[t]
       /\ \A p \in Procs :
            RecvMsgReturn(p) /\ streams[cur[p]].recvq # <<>>
            => LET s == cur[p]
                   oldest == Head(streams[s].recvq)
                   pkgData == Frame2PkgData(oldest)
               IN  /\ last'.stream = s
                   /\ \E emptyOk \in BOOLEAN :
                         LET r == UnmarshalResponse(opt.SerializerType, pkgData, emptyOk)
                         IN  last'.err = r.err /\ last'.val = r.val
                   /\ streams'[s].recvq = Tail(streams[s].recvq)
                   /\ \A t \in StreamIds \ {s} : streams'[t] = streams[t]]_vars

\* A RecvMsg returned the older of two different frames queued on its stream,
\* while two frames were queued on another stream.
C17_Witness ==
    /\ last.op = "recv" /\ last.err = ErrUnmarshal
    /\ Len(streams[last.stream].recvq) = 1
    /\ Head(streams[last.stream].recvq)
          = Pkg2FrameData(<<SerTag(opt.SerializerType), 1>>)
    /\ \E t \in StreamIds \ {last.stream} :
          /\ Len(streams[t].recvq) = 2
          /\ streams[t].recvq[1] # streams[t].recvq[2]

\* C18: Validate changes no field that is already set (non-zero timeout and
\* buffer size, non-empty address, protocol and serializer type, non-nil
\* logger) and never touches the header group and the application version;
\* validating a validated option changes nothing, so validating twice gives
\* what validating once gives.
C18_ValidateKeepsSetFields ==
    last.op = "validate" =>
        /\ last.in.Timeout # 0 => opt.Timeout = last.in.Timeout
        /\ last.in.BufferSize # 0 => opt.BufferSize = last.in.BufferSize
        /\ last.in.Location # "" => opt.Location = last.in.Location
        /\ last.in.Protocol # "" => opt.Protocol = last.in.Protocol
        /\ last.in.SerializerType # "" => opt.SerializerType = last.in.SerializerType
        /\ last.in.Logger # Nil => opt.Logger = last.in.Logger
        /\ opt.HeaderGroup = last.in.HeaderGroup
        /\ opt.HeaderAppVersion = last.in.HeaderAppVersion
        /\ Validate(opt) = opt
        /\ Validate(Validate(last.in)) = Validate(last.in)
        /\ last.nth = 2 => opt = last.in

\* An option with a caller's timeout, protocol and header group, and the other
\* fields left unset, has been validated twice.
C18_Witness ==
    /\ last.op = "validate" /\ last.nth = 2
    /\ opt.Timeout = 30 /\ opt.Protocol = "grpc" /\ opt.HeaderGroup = "dubbogo"
    /\ opt.BufferSize = DefaultHttp2ControllerReadBufferSize
    /\ opt.Location = DefaultListeningAddress

\* C19: a RecvMsg on an open stream takes exactly one frame off the receive
\* queue whether it returns a message or an error: the frame of a failed
\* receive is not put back, the frame the next RecvMsg reads is the one that
\* followed it, and the stream is still open and otherwise as it was.
C19_OneFramePerReceive ==
    [][\A p \in Procs :
          RecvMsgReturn(p) /\ ~streams[cur[p]].recvClosed
          => LET s == cur[p]
                 before == streams[s]
                 after == streams'[s]
             IN  /\ Len(after.recvq) = Len(before.recvq) - 1
                 /\ \A i \in 1..Len(after.recvq) : after.recvq[i] = before.recvq[i + 1]
                 /\ Len(before.recvq) >= 2 => ChanRecv(after) = before.recvq[2]
                 /\ after.kind = "stream" /\ ~after.recvClosed
                 /\ after = [before EXCEPT !.recvq = after.recvq]
                 /\ last'.op = "recv" /\ last'.err # ErrStreamClosed
                 /\ ~panicked']_vars

\* A RecvMsg failed to unmarshal its frame on an open stream that held a
\* second, well-formed frame, which is now the one the next RecvMsg reads.
C19_Witness ==
    /\ last.op = "recv" /\ last.err = ErrUnmarshal /\ ~last.wasClosed
    /\ streams[last.stream].kind = "stream" /\ ~streams[last.stream].recvClosed
    /\ streams[last.stream].recvq
          = <<Pkg2FrameData(<<SerTag(opt.SerializerType), 1>>)>>

\* C20: with the Hessian serializer, an Invoke whose context carries no
\* interface key returns a two-element result whose second element is an
\* error and makes no unary call: no stream is opened, no caller is parked and
\* nothing panics.
C20_MissingInterfaceKey ==
    [][(Hessian /\ \E p \in Procs, mn \in MethodNames, req \in Requests :
                      Invoke(p, mn, NoKey, req))
        => /\ ~panicked'
           /\ last'.op = "invoke"
           /\ Len(last'.rsp) = 2 /\ last'.rsp[2] # Nil
           /\ streams' = streams /\ pc' = pc /\ call' = call]_vars

====
